---- MODULE Spec2Model ----
(***************************************************************************)
(* Model of "Object detection using color separation/From picture.py":     *)
(* the capture loop (read a frame, threshold it in HSV, find and filter    *)
(* contours, print box midpoints, annotate and display, poll the keyboard) *)
(* and the two pure helpers midpoint and boxMidpoint.                      *)
(*                                                                         *)
(* Images are functions from pixel coordinates <<x, y>> to values.  A      *)
(* Python name that is not bound yet (or is None) holds <<>>, or -1 when   *)
(* it is the name of an integer.                                           *)
(***************************************************************************)
EXTENDS Integers, Sequences, FiniteSets, TLC

VARIABLES
    pc,                \* position in the script: read, check, wait, shutdown, done, crashed
    exhausted,         \* the frame source has reached its end: every later read fails
    delivered,         \* number of frames the source has delivered so far
    edits,             \* number of trackbar moves the user has made so far
    tb,                \* trackbar positions of window "S & V Trackbars"
    ret, frame,        \* result of cap.read()
    hsv, lowerHSV, upperHSV, minContourBar,
    mask, contours, res, selectedContours,
    box, mid,          \* loop-body names of the contour loop
    stdout,            \* lines printed by the current loop iteration
    shown,             \* what each window displays (imshow copies its argument)
    k                  \* last key code returned by waitKey

vars == <<pc, exhausted, delivered, edits, tb, ret, frame, hsv, lowerHSV, upperHSV,
          minContourBar, mask, contours, res, selectedContours, box, mid, stdout,
          shown, k>>

-----------------------------------------------------------------------------
(* Bounds of the model *)

Width == 6
Height == 4
MaxFrames == 2
MaxEdits == 1
MaxCoord == 2

(* Program constants *)

TrackbarMax == 255
MinAreaInit == 10
EscKey == 27
StrokeColour == 128

None == <<>>
\* The same for a name that holds an integer once it is bound.
NoInt == 0 - 1

Pixels == (0 .. Width - 1) \X (0 .. Height - 1)

Abs(n) == IF n < 0 THEN 0 - n ELSE n
Sgn(n) == IF n < 0 THEN 0 - 1 ELSE IF n > 0 THEN 1 ELSE 0
Max2(a, b) == IF a >= b THEN a ELSE b
Min2(a, b) == IF a <= b THEN a ELSE b
SetMax(S) == CHOOSE m \in S : \A n \in S : n <= m
SetMin(S) == CHOOSE m \in S : \A n \in S : m <= n

\* An array computed once and stored, rather than a rule evaluated on every access.
Stored(f) == f @@ <<>>

\* Round-to-nearest quotient of a >= 0 by b > 0.
RoundDiv(a, b) == (2 * a + b) \div (2 * b)

-----------------------------------------------------------------------------
(* Trackbars, lines 49-58 *)

TrackbarNames == {"Low Hue", "High Hue", "Low Sat", "High Sat",
                  "Low Value", "High Value", "Min Contour Area"}

\* createTrackbar(name, wname, value, count, dont): the initial positions.
CreateTrackbars ==
    [n \in TrackbarNames |-> IF n = "Min Contour Area" THEN MinAreaInit ELSE 0]

\* Positions the user moves a trackbar to in the model (all within 0..count).
BarValues(n) ==
    CASE n \in {"Low Hue", "High Hue"} -> {0, 120}
      [] n = "Min Contour Area" -> {1, 2, MinAreaInit}
      [] OTHER -> {0, TrackbarMax}

StaleTrackbarPos(n) ==
    CASE n = "Low Hue" -> IF lowerHSV = None THEN 0 ELSE lowerHSV[1]
      [] n = "Low Sat" -> IF lowerHSV = None THEN 0 ELSE lowerHSV[2]
      [] n = "Low Value" -> IF lowerHSV = None THEN 0 ELSE lowerHSV[3]
      [] n = "High Hue" -> IF upperHSV = None THEN 0 ELSE upperHSV[1]
      [] n = "High Sat" -> IF upperHSV = None THEN 0 ELSE upperHSV[2]
      [] n = "High Value" -> IF upperHSV = None THEN 0 ELSE upperHSV[3]
      [] OTHER -> IF minContourBar = NoInt THEN MinAreaInit ELSE minContourBar

\* cv2.getTrackbarPos(name, wname): the current position.
GetTrackbarPos(n) == tb[n]

-----------------------------------------------------------------------------
(* Frames the source can deliver: BGR images *)

BLACK == <<0, 0, 0>>
BLUE == <<255, 0, 0>>
WHITE == <<255, 255, 255>>

InRect(p, x0, y0, x1, y1) == p[1] >= x0 /\ p[1] <= x1 /\ p[2] >= y0 /\ p[2] <= y1

\* A 2x2 and a 3x2 black block on blue, one column apart.
FrameTwo ==
    [p \in Pixels |-> IF InRect(p, 0, 1, 1, 2) \/ InRect(p, 3, 1, 5, 2)
                      THEN BLACK ELSE BLUE]
\* An isolated white pixel and a 2x2 black block on blue.
FrameSpeck ==
    [p \in Pixels |-> IF p = <<0, 2>> THEN WHITE
                      ELSE IF InRect(p, 2, 0, 3, 1) THEN BLACK ELSE BLUE]
\* A frame that is black everywhere.
FrameDark == [p \in Pixels |-> BLACK]

Frames == {FrameTwo, FrameSpeck, FrameDark}

-----------------------------------------------------------------------------
(* Per-pixel stages, lines 68-92 *)

\* cv2.cvtColor(frame, COLOR_BGR2HSV) on one 8-bit pixel: V = max, S = 255 (V - min) / V,
\* H = half the hue angle in degrees (0..179).
PixelBGR2HSV(c) ==
    LET b == c[1]
        g == c[2]
        r == c[3]
        v == Max2(b, Max2(g, r))
        m == Min2(b, Min2(g, r))
        d == v - m
        s == IF v = 0 THEN 0 ELSE RoundDiv(255 * d, v)
        num == IF d = 0 THEN 0
               ELSE IF v = r THEN 60 * (g - b)
               ELSE IF v = g THEN 120 * d + 60 * (b - r)
               ELSE 240 * d + 60 * (r - g)
        pos == IF num < 0 THEN num + 360 * d ELSE num
        h == IF d = 0 THEN 0 ELSE RoundDiv(pos, 2 * d) % 180
    IN  <<h, s, v>>

CvtColor(img) == Stored([p \in Pixels |-> PixelBGR2HSV(img[p])])

InRangeStrict(img, lo, hi) ==
    Stored([p \in Pixels |-> IF \A i \in 1 .. 3 : lo[i] < img[p][i] /\ img[p][i] < hi[i]
                             THEN 255 ELSE 0])

\* cv2.inRange(hsv, lowerHSV, upperHSV): 255 where every channel lies in [lo, hi].
InRange(img, lo, hi) ==
    Stored([p \in Pixels |-> IF \A i \in 1 .. 3 : lo[i] <= img[p][i] /\ img[p][i] <= hi[i]
                             THEN 255 ELSE 0])

\* cv2.bitwise_and(frame, frame, mask=mask): the frame where the mask is set, 0 elsewhere.
BitwiseAnd(img, m) ==
    Stored([p \in Pixels |-> IF m[p] # 0 THEN img[p] ELSE <<0, 0, 0>>])

-----------------------------------------------------------------------------
(* Morphology, lines 95-100 *)

\* cv2.getStructuringElement(MORPH_ELLIPSE, (3,3)): the 3x3 cross, as offsets.
Ellipse3 == {<<0, 0>>, <<1, 0>>, <<0 - 1, 0>>, <<0, 1>>, <<0, 0 - 1>>}

Hood(p) == {q \in Pixels : <<q[1] - p[1], q[2] - p[2]>> \in Ellipse3}

\* Erosion / dilation: per-channel minimum / maximum over the neighbourhood;
\* pixels outside the image do not take part (OpenCV's default border value).
\* v is the input image, evaluated once.
Erode(img) ==
    CHOOSE out \in {Stored([p \in Pixels |-> <<SetMin({v[q][1] : q \in Hood(p)}),
                                              SetMin({v[q][2] : q \in Hood(p)}),
                                              SetMin({v[q][3] : q \in Hood(p)})>>])
                    : v \in {img}} : TRUE
Dilate(img) ==
    CHOOSE out \in {Stored([p \in Pixels |-> <<SetMax({v[q][1] : q \in Hood(p)}),
                                              SetMax({v[q][2] : q \in Hood(p)}),
                                              SetMax({v[q][3] : q \in Hood(p)})>>])
                    : v \in {img}} : TRUE

RECURSIVE ErodeTimes(_, _)
ErodeTimes(n, img) == IF n = 0 THEN img ELSE ErodeTimes(n - 1, Erode(img))

RECURSIVE DilateTimes(_, _)
DilateTimes(n, img) == IF n = 0 THEN img ELSE DilateTimes(n - 1, Dilate(img))

\* cv2.morphologyEx(src, op, kernel, iterations=n) RETURNS the filtered image and
\* leaves src as it is: opening erodes n times then dilates n times, closing
\* dilates n times then erodes n times.
MorphologyEx(img, op, n) ==
    IF op = "MORPH_OPEN" THEN DilateTimes(n, ErodeTimes(n, img))
    ELSE ErodeTimes(n, DilateTimes(n, img))

-----------------------------------------------------------------------------
(* Contours, line 89 *)

Fg(m) == {p \in Pixels : m[p] # 0}
Adj8(p, q) == p # q /\ Abs(p[1] - q[1]) <= 1 /\ Abs(p[2] - q[2]) <= 1
Adj4(p, q) == Abs(p[1] - q[1]) + Abs(p[2] - q[2]) = 1

\* The pixels of R reachable from S through 8-neighbours (4-neighbours) inside R.
RECURSIVE Grow8(_, _)
Grow8(S, R) ==
    LET N == {q \in R \ S : \E p \in S : Adj8(p, q)}
    IN  IF N = {} THEN S ELSE Grow8(S \cup N, R)

RECURSIVE Grow4(_, _)
Grow4(S, R) ==
    LET N == {q \in R \ S : \E p \in S : Adj4(p, q)}
    IN  IF N = {} THEN S ELSE Grow4(S \cup N, R)

\* Raster order: row by row from the top, left to right within a row.
RasterLess(p, q) == p[2] < q[2] \/ (p[2] = q[2] /\ p[1] < q[1])
FirstPixel(S) == CHOOSE p \in S : \A q \in S : p = q \/ RasterLess(p, q)

\* The 8-connected regions of a pixel set, in raster order of their first pixel.
RECURSIVE Components(_)
Components(F) ==
    IF F = {} THEN <<>>
    ELSE LET c == Grow8({FirstPixel(F)}, F)
         IN  <<c>> \o Components(F \ c)

OnBorder(p) == p[1] = 0 \/ p[1] = Width - 1 \/ p[2] = 0 \/ p[2] = Height - 1

\* Region c lies inside a hole of region d: no 4-connected path avoiding d
\* leads from the image border to c.
Surrounded(c, d) ==
    LET free == Pixels \ d
        open == Grow4({p \in free : OnBorder(p)}, free)
    IN  c \cap open = {}

\* The eight chain-code steps, counter-clockwise on the screen from east.
DirSeq == << <<1, 0>>, <<1, 0 - 1>>, <<0, 0 - 1>>, <<0 - 1, 0 - 1>>,
             <<0 - 1, 0>>, <<0 - 1, 1>>, <<0, 1>>, <<1, 1>> >>
Step(p, d) == <<p[1] + DirSeq[d + 1][1], p[2] + DirSeq[d + 1][2]>>

\* First direction, sweeping counter-clockwise from `from`, that leads to a pixel of c
\* (8 when p has no neighbour in c).
NextDir(p, from, c) ==
    LET hits == {i \in 0 .. 7 : Step(p, (from + i) % 8) \in c}
    IN  IF hits = {} THEN 8 ELSE (from + SetMin(hits)) % 8

\* Border following from the first pixel in raster order (nothing lies above it
\* or to its left): walk the outer border with the outside on the right until
\* the walk is about to repeat its first move.
RECURSIVE Follow(_, _, _, _, _, _)
Follow(c, s, d0, p, d, acc) ==
    LET nd == NextDir(p, (d + 5) % 8, c)
    IN  IF p = s /\ nd = d0 THEN acc
        ELSE Follow(c, s, d0, Step(p, nd), nd, Append(acc, p))

BorderChain(c) ==
    LET s == FirstPixel(c)
        d0 == NextDir(s, 1, c)
    IN  IF d0 = 8 THEN <<s>> ELSE Follow(c, s, d0, Step(s, d0), d0, <<s>>)

\* CHAIN_APPROX_SIMPLE: keep only the points where the chain changes direction.
ApproxSimple(chain) ==
    LET n == Len(chain)
        prev(i) == chain[IF i = 1 THEN n ELSE i - 1]
        next(i) == chain[IF i = n THEN 1 ELSE i + 1]
        turn(i) == <<chain[i][1] - prev(i)[1], chain[i][2] - prev(i)[2]>>
                   # <<next(i)[1] - chain[i][1], next(i)[2] - chain[i][2]>>
        keep == {i \in 1 .. n : n = 1 \/ turn(i)}
        nth(j) == CHOOSE i \in keep : Cardinality({h \in keep : h < i}) = j - 1
    IN  Stored([j \in 1 .. Cardinality(keep) |-> chain[nth(j)]])

Reverse(s) == Stored([i \in 1 .. Len(s) |-> s[Len(s) + 1 - i]])

\* cv2.findContours(mask, RETR_EXTERNAL, CHAIN_APPROX_SIMPLE): one point sequence
\* per outermost 8-connected region of the mask, last region found first.
\* The mask itself is left as it is.
FindContours(m) ==
    LET comps == Components(Fg(m))
        outer == SelectSeq(comps, LAMBDA c :
                     \A i \in 1 .. Len(comps) : comps[i] = c \/ ~Surrounded(c, comps[i]))
    IN  Reverse(Stored([i \in 1 .. Len(outer) |-> ApproxSimple(BorderChain(outer[i]))]))

-----------------------------------------------------------------------------
(* Contour geometry, lines 107-109 *)

RECURSIVE Shoelace(_, _)
Shoelace(c, i) ==
    IF i > Len(c) THEN 0
    ELSE LET a == c[i]
             b == c[IF i = Len(c) THEN 1 ELSE i + 1]
         IN  a[1] * b[2] - b[1] * a[2] + Shoelace(c, i + 1)

\* cv2.contourArea(c), doubled so that it stays an integer: the polygon area of
\* the contour points (Green's formula), without orientation.
ContourArea2(c) == Abs(Shoelace(c, 1))

\* np.array(cv2.boxPoints(cv2.minAreaRect(c)), dtype="int") for a contour whose
\* convex hull is an axis-parallel rectangle: the corners of that rectangle, in
\* boxPoints' order bottom-left, top-left, top-right, bottom-right.
MinAreaBox(c) ==
    LET xs == {c[i][1] : i \in 1 .. Len(c)}
        ys == {c[i][2] : i \in 1 .. Len(c)}
    IN  << <<SetMin(xs), SetMax(ys)>>, <<SetMin(xs), SetMin(ys)>>,
           <<SetMax(xs), SetMin(ys)>>, <<SetMax(xs), SetMax(ys)>> >>

-----------------------------------------------------------------------------
(* Box ordering, line 111 *)

\* Stable sort of a sequence of points by one coordinate (axis 1 is x, axis 2
\* is y): points with equal keys keep their input order.
StableSortBy(s, axis) ==
    LET n == Len(s)
        rank(i) == Cardinality({j \in 1 .. n : s[j][axis] < s[i][axis]
                                              \/ (s[j][axis] = s[i][axis] /\ j < i)}) + 1
    IN  Stored([r \in 1 .. n |-> s[CHOOSE i \in 1 .. n : rank(i) = r]])

\* perspective.order_points(box): the corners as (top-left, top-right,
\* bottom-right, bottom-left).  Sort by vertical position, take the two topmost
\* and the two bottommost, sort each pair by horizontal position.
order_points(pts) ==
    LET byY == StableSortBy(pts, 2)
        top == StableSortBy(SubSeq(byY, 1, 2), 1)
        bot == StableSortBy(SubSeq(byY, 3, 4), 1)
    IN  <<top[1], top[2], bot[2], bot[1]>>

-----------------------------------------------------------------------------
(* midpoint and boxMidpoint, lines 38-47 *)

\* int(x) of Python: the integer part, towards zero.  n is twice x.
IntOfHalf(n) == IF n >= 0 THEN n \div 2 ELSE 0 - ((0 - n) \div 2)

midpointNoHalf(a, b) == <<a[1] + b[1], a[2] + b[2]>>

midpoint(a, b) == <<IntOfHalf(a[1] + b[1]), IntOfHalf(a[2] + b[2])>>

\* Python's box[0..3] are b[1..4] here.
boxMidpoint(b) ==
    LET tltr == midpoint(b[1], b[2])
        blbr == midpoint(b[4], b[3])
        tlbl == midpoint(b[1], b[3])
        trbr == midpoint(b[2], b[3])
    IN  <<midpoint(tlbl, trbr), midpoint(tltr, blbr)>>

-----------------------------------------------------------------------------
(* The contour loop, lines 103-117 *)

KeepSelected(old) == old

\* selectedContours = [] before the loop.
ResetSelected(old) == <<>>

AreaAtLeast(c, minArea) == ContourArea2(c) >= 2 * minArea

\* cv2.contourArea(c) > minContourBar
AreaExceeds(c, minArea) == ContourArea2(c) > 2 * minArea

\* for c in contours: ... from contour i on.  st holds the names the loop
\* assigns: sel (selectedContours), out (printed lines), box and mid.
RECURSIVE ForContours(_, _, _, _)
ForContours(cs, i, minArea, st) ==
    IF i > Len(cs) THEN st
    ELSE IF AreaExceeds(cs[i], minArea)
         THEN LET b == order_points(MinAreaBox(cs[i]))
                  m == boxMidpoint(b)
              IN  ForContours(cs, i + 1, minArea,
                              [sel |-> Append(st.sel, cs[i]),
                               out |-> Append(st.out, m),
                               box |-> b, mid |-> m])
         ELSE ForContours(cs, i + 1, minArea, st)

-----------------------------------------------------------------------------
(* Annotation, lines 122-123 *)

Segment(a, b) ==
    LET dx == b[1] - a[1]
        dy == b[2] - a[2]
    IN  {<<a[1] + t * Sgn(dx), a[2] + t * Sgn(dy)>> : t \in 0 .. Max2(Abs(dx), Abs(dy))}

Outline(c) ==
    UNION {Segment(c[i], c[IF i = Len(c) THEN 1 ELSE i + 1]) : i \in 1 .. Len(c)}

\* cv2.drawContours(img, cs, -1, (0,0,128), 3): every contour's outline is
\* painted into img with a stroke 3 pixels wide.
DrawContours(img, cs) ==
    LET line == UNION {Outline(cs[i]) : i \in 1 .. Len(cs)}
        ink == {p \in Pixels : \E q \in line : Abs(p[1] - q[1]) <= 1 /\ Abs(p[2] - q[2]) <= 1}
    IN  Stored([p \in Pixels |-> IF p \in ink THEN <<0, 0, StrokeColour>> ELSE img[p]])

-----------------------------------------------------------------------------
(* The script *)

NoWindows == [w \in {"Camera", "mask", "Result"} |-> None]

\* The state when the loop is first entered (lines 28-58): the capture is open,
\* the trackbars stand at their initial positions, no loop name is bound yet
\* (ret, which is only read after a read has set it, starts as FALSE).
Init ==
    /\ pc = "read"
    /\ exhausted = FALSE
    /\ delivered = 0
    /\ edits = 0
    /\ tb = CreateTrackbars
    /\ ret = FALSE
    /\ frame = None
    /\ hsv = None
    /\ lowerHSV = None
    /\ upperHSV = None
    /\ minContourBar = NoInt
    /\ mask = None
    /\ contours = None
    /\ res = None
    /\ selectedContours = None
    /\ box = None
    /\ mid = None
    /\ stdout = <<>>
    /\ shown = NoWindows
    /\ k = NoInt

\* ret, frame = cap.read()  (line 63).  The source delivers a frame, is
\* unavailable for the moment, or has reached its end for good.
Read ==
    /\ pc = "read"
    /\ \/ /\ ~exhausted
          /\ delivered < MaxFrames
          /\ \E f \in Frames : frame' = f
          /\ ret' = TRUE
          /\ delivered' = delivered + 1
          /\ UNCHANGED exhausted
       \/ /\ ~exhausted
          /\ ret' = FALSE
          /\ frame' = None
          /\ UNCHANGED <<exhausted, delivered>>
       \/ /\ exhausted' = TRUE
          /\ ret' = FALSE
          /\ frame' = None
          /\ UNCHANGED delivered
    /\ stdout' = <<>>
    /\ pc' = "check"
    /\ UNCHANGED <<edits, tb, hsv, lowerHSV, upperHSV, minContourBar, mask, contours,
                   res, selectedContours, box, mid, shown, k>>

FrameCapturedAlways(r) == TRUE

\* if ret:  (line 66)
FrameCaptured(r) == r

\* The body of `if ret:` (lines 67-128), one frame from conversion to display.
Process ==
    /\ pc = "check"
    /\ FrameCaptured(ret)
    /\ IF frame = None
       THEN \* cv2.cvtColor raises on an empty image and nothing catches it
            /\ pc' = "crashed"
            /\ UNCHANGED <<hsv, lowerHSV, upperHSV, minContourBar, mask, contours, res,
                           selectedContours, box, mid, stdout, shown, frame>>
       ELSE LET h == CvtColor(frame)
                lowH == GetTrackbarPos("Low Hue")
                highH == GetTrackbarPos("High Hue")
                lowS == GetTrackbarPos("Low Sat")
                highS == GetTrackbarPos("High Sat")
                lowV == GetTrackbarPos("Low Value")
                highV == GetTrackbarPos("High Value")
                minBar == GetTrackbarPos("Min Contour Area")
                lo == <<lowH, lowS, lowV>>
                hi == <<highH, highS, highV>>
                m == InRange(h, lo, hi)
                cs == FindContours(m)
                r0 == BitwiseAnd(frame, m)
                \* lines 95-100: both results are returned and not assigned
                opened == MorphologyEx(r0, "MORPH_OPEN", 1)
                closed == MorphologyEx(r0, "MORPH_CLOSE", 3)
                loop == ForContours(cs, 1, minBar,
                                    [sel |-> ResetSelected(selectedContours),
                                     out |-> stdout, box |-> box, mid |-> mid])
                r1 == DrawContours(r0, loop.sel)
                f1 == DrawContours(frame, loop.sel)
            IN  /\ hsv' = h
                /\ lowerHSV' = lo
                /\ upperHSV' = hi
                /\ minContourBar' = minBar
                /\ mask' = m
                /\ contours' = cs
                /\ selectedContours' = loop.sel
                /\ box' = loop.box
                /\ mid' = loop.mid
                /\ stdout' = loop.out
                /\ res' = r1
                /\ frame' = f1
                /\ shown' = [Camera |-> f1, mask |-> m, Result |-> r1]
                /\ pc' = "wait"
    /\ UNCHANGED <<exhausted, delivered, edits, tb, ret, k>>

\* ret is false: the body is skipped (line 66).
SkipFrame ==
    /\ pc = "check"
    /\ ~FrameCaptured(ret)
    /\ pc' = "wait"
    /\ UNCHANGED <<exhausted, delivered, edits, tb, ret, frame, hsv, lowerHSV, upperHSV,
                   minContourBar, mask, contours, res, selectedContours, box, mid,
                   stdout, shown, k>>

\* if k == 27: break  (line 132)
BreakLoop(key) == key = EscKey

\* k = cv2.waitKey(15) & 0xFF  (lines 131-133).  waitKey runs the window event
\* loop, so this is where a trackbar the user drags takes its new position; it
\* returns the key pressed, or -1 when none was.
WaitKey ==
    /\ pc = "wait"
    /\ \/ UNCHANGED <<tb, edits>>
       \/ /\ edits < MaxEdits
          /\ \E n \in TrackbarNames : \E v \in BarValues(n) \ {tb[n]} :
                 tb' = [tb EXCEPT ![n] = v]
          /\ edits' = edits + 1
    /\ \E key \in {0 - 1, EscKey, 113} :
          /\ k' = key % 256
          /\ pc' = IF BreakLoop(key % 256) THEN "shutdown" ELSE "read"
    /\ UNCHANGED <<exhausted, delivered, ret, frame, hsv, lowerHSV, upperHSV,
                   minContourBar, mask, contours, res, selectedContours, box, mid,
                   stdout, shown>>

\* cv2.destroyAllWindows(); del cap  (lines 135-138)
Shutdown ==
    /\ pc = "shutdown"
    /\ shown' = NoWindows
    /\ pc' = "done"
    /\ UNCHANGED <<exhausted, delivered, edits, tb, ret, frame, hsv, lowerHSV, upperHSV,
                   minContourBar, mask, contours, res, selectedContours, box, mid,
                   stdout, k>>

Next == Read \/ Process \/ SkipFrame \/ WaitKey \/ Shutdown

Spec == Init /\ [][Next]_vars

\* The interpreter keeps executing the script: a statement that can run does
\* run, and waitKey returns after its delay.  Process is enabled exactly when
\* pc = "check" and the read succeeded, and is then the only step the script
\* can take, so its fairness is stated as: the script does not stay there.
FairSpec ==
    /\ Spec
    /\ WF_vars(Read)
    /\ WF_vars(SkipFrame)
    /\ WF_vars(WaitKey)
    /\ WF_vars(Shutdown)
    /\ []<>(~(pc = "check" /\ FrameCaptured(ret)))

-----------------------------------------------------------------------------
(* The box helpers on their own, lines 109-115, for every box of four integer *)
(* corners with coordinates in Coords.  The integer cast of boxPoints can     *)
(* yield negative coordinates and corners that are not exactly a rectangle.  *)

Coords == (0 - 1) .. MaxCoord
Points == Coords \X Coords

InitBox ==
    /\ pc = "box"
    /\ box \in [1 .. 4 -> Points]
    /\ exhausted = FALSE
    /\ delivered = 0
    /\ edits = 0
    /\ tb = CreateTrackbars
    /\ ret = TRUE
    /\ frame = None
    /\ hsv = None
    /\ lowerHSV = None
    /\ upperHSV = None
    /\ minContourBar = NoInt
    /\ mask = None
    /\ contours = None
    /\ res = None
    /\ selectedContours = None
    /\ mid = None
    /\ stdout = <<>>
    /\ shown = NoWindows
    /\ k = NoInt

\* box = perspective.order_points(box)  (line 111)
OrderBox ==
    /\ pc = "box"
    /\ box' = order_points(box)
    /\ pc' = "ordered"
    /\ UNCHANGED <<exhausted, delivered, edits, tb, ret, frame, hsv, lowerHSV, upperHSV,
                   minContourBar, mask, contours, res, selectedContours, mid, stdout,
                   shown, k>>

\* mid = boxMidpoint(box); print("Contour midpoint: ", mid)  (lines 113-115)
MidBox ==
    /\ pc = "ordered"
    /\ mid' = boxMidpoint(box)
    /\ stdout' = Append(stdout, mid')
    /\ pc' = "mid"
    /\ UNCHANGED <<exhausted, delivered, edits, tb, ret, frame, hsv, lowerHSV, upperHSV,
                   minContourBar, mask, contours, res, selectedContours, box, shown, k>>

NextBox == OrderBox \/ MidBox

SpecBox == InitBox /\ [][NextBox]_vars

-----------------------------------------------------------------------------
(* Properties *)

\* A frame has just been processed and its windows updated.
Processed == pc = "wait" /\ ret
\* The step that processes a frame.
ProcessStep == pc = "check" /\ ret /\ pc' = "wait"

IsSelected(c) == \E j \in 1 .. Len(selectedContours) : selectedContours[j] = c
MinArea == tb["Min Contour Area"]
ReportedFor(c) == boxMidpoint(order_points(MinAreaBox(c)))

\* C1: after a frame is processed, a contour of its mask is in selectedContours
\* exactly when its polygon area is strictly greater than the Min Contour Area
\* position, and one midpoint line is printed per selected contour, in order.
C1_AreaFilter ==
    Processed =>
        /\ \A i \in 1 .. Len(contours) :
               IsSelected(contours[i]) <=> ContourArea2(contours[i]) > 2 * MinArea
        /\ \A j \in 1 .. Len(selectedContours) :
               \E i \in 1 .. Len(contours) : contours[i] = selectedContours[j]
        /\ Len(stdout) = Len(selectedContours)
        /\ \A j \in 1 .. Len(stdout) : stdout[j] = ReportedFor(selectedContours[j])

\* A processed frame with one contour of area exactly Min Contour Area, left
\* out, and one of area Min Contour Area + 1, selected.
C1_Witness ==
    /\ Processed
    /\ \E i, j \in 1 .. Len(contours) :
          /\ ContourArea2(contours[i]) = 2 * MinArea
          /\ ~IsSelected(contours[i])
          /\ ContourArea2(contours[j]) = 2 * (MinArea + 1)
          /\ IsSelected(contours[j])
          /\ Len(stdout) = 1

\* The four corners of b, taken in order, go round a rectangle with sides of
\* positive length.
IsRectangle(b) ==
    /\ b[1][1] + b[3][1] = b[2][1] + b[4][1]
    /\ b[1][2] + b[3][2] = b[2][2] + b[4][2]
    /\ (b[2][1] - b[1][1]) * (b[4][1] - b[1][1])
         + (b[2][2] - b[1][2]) * (b[4][2] - b[1][2]) = 0
    /\ b[1] # b[2]
    /\ b[1] # b[4]

\* The left-edge / right-edge midpoint the claim describes, for an ordered box.
EdgeMidpoint(b) == midpoint(midpoint(b[1], b[4]), midpoint(b[2], b[3]))

\* C2 (as claimed): every point boxMidpoint reports for a canonically ordered
\* box is the midpoint of the segment joining the midpoint of the left edge
\* (top-left, bottom-left) and the midpoint of the right edge (top-right,
\* bottom-right), each coordinate truncated toward zero.
\* Stated for the boxes that are rectangles, which are among those the claim covers.
C2_EdgeMidpoint ==
    (pc = "mid" /\ IsRectangle(box)) =>
        \A i \in 1 .. Len(mid) : mid[i] = EdgeMidpoint(box)

Cross(o, a, b) == (a[1] - o[1]) * (b[2] - o[2]) - (a[2] - o[2]) * (b[1] - o[1])

\* p lies between the extreme coordinates of the points of s.
InBounds(p, s) ==
    /\ \E i \in 1 .. Len(s) : s[i][1] <= p[1]
    /\ \E i \in 1 .. Len(s) : s[i][1] >= p[1]
    /\ \E i \in 1 .. Len(s) : s[i][2] <= p[2]
    /\ \E i \in 1 .. Len(s) : s[i][2] >= p[2]

\* p lies in the triangle a b c, boundary included (a segment or a point when
\* a, b, c are collinear).
InTriangle(p, a, b, c) ==
    LET d1 == Cross(a, b, p)
        d2 == Cross(b, c, p)
        d3 == Cross(c, a, p)
    IN  IF Cross(a, b, c) # 0
        THEN (d1 >= 0 /\ d2 >= 0 /\ d3 >= 0) \/ (d1 <= 0 /\ d2 <= 0 /\ d3 <= 0)
        ELSE d1 = 0 /\ d2 = 0 /\ d3 = 0 /\ InBounds(p, <<a, b, c>>)

\* p lies in the convex hull of the points of s: in the plane, in the triangle
\* of three of them.
InHull(p, s) ==
    \E i, j, h \in 1 .. Len(s) : InTriangle(p, s[i], s[j], s[h])

\* C3 (as claimed): every midpoint boxMidpoint reports lies within the convex
\* hull of the 4 corners of the box, boundary included.
\* Stated for the boxes that are rectangles, which are among those the claim covers.
C3_InHull ==
    (pc = "mid" /\ IsRectangle(box)) =>
        \A i \in 1 .. Len(mid) : InHull(mid[i], box)

\* C3 (amended): every midpoint boxMidpoint reports lies within the axis-parallel
\* bounding rectangle of the 4 corners: each coordinate lies between the least
\* and the greatest corner coordinate.
C3_InBounds ==
    pc = "mid" => \A i \in 1 .. Len(mid) : InBounds(mid[i], box)

\* Both midpoints have been reported for a tilted rectangle, with a negative
\* and an odd coordinate sum so that the integer cast has cut a half off
\* towards zero, and they lie inside the bounding rectangle.
C3_Witness ==
    /\ pc = "mid"
    /\ IsRectangle(box)
    /\ box[1][2] # box[2][2]
    /\ box[1][1] + box[2][1] = 0 - 1
    /\ Len(mid) = 2
    /\ InBounds(mid[1], box)
    /\ InBounds(mid[2], box)

Rotate(s, r) == [i \in 1 .. Len(s) |-> s[((i + r - 1) % Len(s)) + 1]]

\* C4 (as claimed): ordering the corners gives the same sequence for every
\* cyclic permutation of the same four input corners.
\* Stated for the boxes that are rectangles, which are among those the claim covers.
C4_RotationStable ==
    [][(pc = "box" /\ IsRectangle(box) /\ pc' = "ordered") =>
          \A r \in 1 .. 3 : order_points(Rotate(box, r)) = box']_vars

InRangeOf(v, lo, hi) == \A i \in 1 .. 3 : lo[i] <= v[i] /\ v[i] <= hi[i]
LowBars == <<tb["Low Hue"], tb["Low Sat"], tb["Low Value"]>>
HighBars == <<tb["High Hue"], tb["High Sat"], tb["High Value"]>>

\* C5: what processing a frame leaves in mask, selectedContours and the printed
\* lines is a function of the frame just read and the trackbar positions alone,
\* whatever earlier iterations left behind; selectedContours holds contours of
\* this frame only.
C5_Stateless ==
    [][ProcessStep =>
          LET m == InRange(CvtColor(frame), LowBars, HighBars)
              cs == FindContours(m)
              sel == SelectSeq(cs, LAMBDA c : ContourArea2(c) > 2 * MinArea)
          IN  /\ mask' = m
              /\ selectedContours' = sel
              /\ stdout' = [j \in 1 .. Len(sel) |-> ReportedFor(sel[j])]]_vars

\* A second frame has been processed, after other trackbar positions than the
\* first one's, and has selected one of its two contours.
C5_Witness ==
    /\ Processed
    /\ delivered = 2
    /\ edits = 1
    /\ Len(contours) = 2
    /\ Len(selectedContours) = 1

\* C6: processing a frame uses the trackbar positions of that moment for the
\* thresholding range and for the area filter.
C6_FreshParameters ==
    [][ProcessStep =>
          /\ lowerHSV' = LowBars
          /\ upperHSV' = HighBars
          /\ minContourBar' = MinArea
          /\ \A p \in Pixels : (mask'[p] # 0) <=> InRangeOf(hsv'[p], LowBars, HighBars)
          /\ \A i \in 1 .. Len(contours') :
                 (\E j \in 1 .. Len(selectedContours') :
                      selectedContours'[j] = contours'[i])
                 <=> ContourArea2(contours'[i]) > 2 * MinArea]_vars

\* A frame has been processed with trackbar positions that differ from those
\* the trackbars were created with.
C6_Witness ==
    /\ Processed
    /\ delivered = 2
    /\ tb # CreateTrackbars
    /\ <<lowerHSV, upperHSV, minContourBar>> = <<LowBars, HighBars, MinArea>>

\* C7: after a frame is processed, the mask on display is the mask variable and
\* is still exactly the thresholding of hsv; the contours are those of that
\* mask and every selected contour is one of them.
C7_MaskUntouched ==
    Processed =>
        /\ shown["mask"] = mask
        /\ \A p \in Pixels :
               mask[p] = IF InRangeOf(hsv[p], lowerHSV, upperHSV) THEN 255 ELSE 0
        /\ contours = FindContours(mask)
        /\ \A j \in 1 .. Len(selectedContours) :
               \E i \in 1 .. Len(contours) : contours[i] = selectedContours[j]

\* A processed frame whose contour stroke was painted over pixels outside the
\* mask, in the camera image and in the result.
C7_Witness ==
    /\ Processed
    /\ selectedContours # <<>>
    /\ \E p \in Pixels :
          /\ mask[p] = 0
          /\ shown["Camera"][p] = <<0, 0, StrokeColour>>
          /\ shown["Result"][p] = <<0, 0, StrokeColour>>

\* C8: when the read fails the iteration does nothing but reach waitKey: no
\* image, contour list or window changes, nothing is printed, and unless
\* escape is pressed the loop goes on to the next read.
C8_SkipOnFailedRead ==
    [][/\ (pc = "check" /\ ~ret) =>
              /\ pc' = "wait"
              /\ stdout' = <<>>
              /\ UNCHANGED <<hsv, lowerHSV, upperHSV, minContourBar, mask, contours,
                             res, selectedContours, box, mid, shown>>
       /\ (pc = "wait" /\ ~ret) =>
              pc' = IF k' = EscKey THEN "shutdown" ELSE "read"]_vars

\* A failed read has been skipped while the windows still show an earlier frame.
C8_Witness ==
    /\ pc = "wait"
    /\ ~ret
    /\ delivered = 1
    /\ shown["mask"] # None
    /\ stdout = <<>>

\* C9 (as claimed): once the frame source is exhausted the loop eventually
\* stops and the script reaches its end.
C9_EndOfStreamTerminates == exhausted ~> (pc = "done")

\* C10 (as claimed): the result image on display is the masked frame after one
\* opening pass and three closing passes, with the selected contours drawn.
C10_ResultIsCleaned ==
    [][ProcessStep =>
          shown'["Result"] =
              DrawContours(MorphologyEx(MorphologyEx(BitwiseAnd(frame, mask'),
                                                     "MORPH_OPEN", 1),
                                        "MORPH_CLOSE", 3),
                           selectedContours')]_vars

\* Every contour handled has a hull that is an axis-parallel rectangle, which
\* is what MinAreaBox relies on.
BoxExact ==
    \A i \in 1 .. Len(contours) :
        \A j \in 1 .. 4 : \E h \in 1 .. Len(contours[i]) :
            contours[i][h] = MinAreaBox(contours[i])[j]

====
